---- MODULE Spec2Model ----
(***************************************************************************)
(* Model of algodao/previsoes.py (the forecasting module, executed once at *)
(* import) and of the part of algodao/app.py that imports it and renders   *)
(* its results.                                                            *)
(*                                                                         *)
(* Numbers are binary floating-point values <<m, e>> = m * 2^e with a      *)
(* significand of Prec bits and round-to-nearest-even, the arithmetic of   *)
(* numpy's float64 at a reduced significand width.                         *)
(***************************************************************************)
EXTENDS Integers, Sequences, FiniteSets, TLC

\* ----- bounds of the model -----
Prec == 8          \* significand width of the floating-point arithmetic
MaxExtra == 2      \* the series has at most window + MaxExtra points
SeedLen == 3       \* the series repeats a pattern of SeedLen prices
MaxCalls == 2      \* calls of the prediction functions after the page is drawn
MaxRuns == 2       \* process starts on the same series (SpecRerun)

\* previsoes.py:14
window == 10

\* the prices the data source may supply
Prices == {11, 14, 17}

\* the value of a name not yet bound
None == <<>>
\* no exception
SemErro == "nenhum"

\* ----- floating-point arithmetic (numpy float64, Prec-bit significand) -----
Abs(n) == IF n < 0 THEN -n ELSE n
Sgn(n) == IF n < 0 THEN -1 ELSE IF n = 0 THEN 0 ELSE 1
Min2(a, b) == IF a <= b THEN a ELSE b
Max2(a, b) == IF a >= b THEN a ELSE b

\* the number of bits of n >= 0, a byte at a time
RECURSIVE BitLenLento(_)
BitLenLento(n) == IF n = 0 THEN 0 ELSE 1 + BitLenLento(n \div 2)

BitLenByte == [n \in 0..255 |-> BitLenLento(n)]

RECURSIVE BitLen(_)
BitLen(n) == IF n < 256 THEN BitLenByte[n] ELSE 8 + BitLen(n \div 256)

\* canonical form: odd significand, or <<0, 0>>
RECURSIVE FNorm(_, _)
FNorm(m, e) ==
  IF m = 0 THEN <<0, 0>>
  ELSE IF m % 2 = 0 THEN FNorm(m \div 2, e + 1)
  ELSE <<m, e>>

\* m * 2^e rounded to Prec significant bits, ties to even
FRound(m, e) ==
  LET a == Abs(m)
      k == BitLen(a) - Prec
  IN IF k <= 0 THEN FNorm(m, e)
     ELSE LET q == a \div (2 ^ k)
              r == a % (2 ^ k)
              h == 2 ^ (k - 1)
              q2 == IF r > h \/ (r = h /\ q % 2 = 1) THEN q + 1 ELSE q
          IN FNorm(Sgn(m) * q2, e + k)

FromInt(n) == FRound(n, 0)
FZero == <<0, 0>>
FOne == <<1, 0>>
FTop(a) == BitLen(Abs(a[1])) + a[2]
FNeg(a) == <<-a[1], a[2]>>
FMul(a, b) == FRound(a[1] * b[1], a[2] + b[2])

FAdd(a, b) ==
  IF a[1] = 0 THEN b
  ELSE IF b[1] = 0 THEN a
  ELSE IF FTop(a) - FTop(b) > Prec + 2 THEN a
  ELSE IF FTop(b) - FTop(a) > Prec + 2 THEN b
  ELSE LET e == Min2(a[2], b[2])
       IN FRound(a[1] * (2 ^ (a[2] - e)) + b[1] * (2 ^ (b[2] - e)), e)

FSub(a, b) == FAdd(a, FNeg(b))

\* a / b for b # 0: a quotient of Prec + 2 bits and a sticky bit, then rounded
FDiv(a, b) ==
  IF a[1] = 0 THEN FZero
  ELSE LET am == Abs(a[1])
           bm == Abs(b[1])
           s == Max2(0, Prec + 2 + BitLen(bm) - BitLen(am))
           n == am * (2 ^ s)
           q == n \div bm
           q2 == 2 * q + (IF n % bm = 0 THEN 0 ELSE 1)
       IN FRound(Sgn(a[1]) * Sgn(b[1]) * q2, a[2] - b[2] - s - 1)

RECURSIVE ISqrtBetween(_, _, _)
ISqrtBetween(n, lo, hi) ==
  IF lo >= hi THEN lo
  ELSE LET mid == (lo + hi + 1) \div 2
       IN IF mid * mid <= n THEN ISqrtBetween(n, mid, hi)
          ELSE ISqrtBetween(n, lo, mid - 1)

ISqrt(n) == ISqrtBetween(n, 0, 2 ^ ((BitLen(n) + 1) \div 2))

\* square root of a >= 0, correctly rounded
FSqrt(a) ==
  IF a[1] = 0 THEN FZero
  ELSE LET odd == a[2] % 2 = 1
           m0 == IF odd THEN 2 * a[1] ELSE a[1]
           e0 == IF odd THEN a[2] - 1 ELSE a[2]
           t == Max2(0, Prec + 2 - (BitLen(m0) \div 2))
           big == m0 * (4 ^ t)
           r == ISqrt(big)
           r2 == 2 * r + (IF r * r = big THEN 0 ELSE 1)
       IN FRound(r2, ((e0 - 2 * t) \div 2) - 1)

FLess(a, b) == FSub(a, b)[1] < 0
FLeq(a, b) == FSub(a, b)[1] <= 0
FAbs(a) == <<Abs(a[1]), a[2]>>


\* ----- sklearn MinMaxScaler, feature_range (0, 1) -----
RECURSIVE FMinOf(_)
FMinOf(v) ==
  IF Len(v) = 1 THEN v[1]
  ELSE LET r == FMinOf(Tail(v)) IN IF FLess(r, v[1]) THEN r ELSE v[1]

RECURSIVE FMaxOf(_)
FMaxOf(v) ==
  IF Len(v) = 1 THEN v[1]
  ELSE LET r == FMaxOf(Tail(v)) IN IF FLess(v[1], r) THEN r ELSE v[1]

\* Fault seeded for C3: a zero range replaced by the machine epsilon.
HandleZerosEps(r) == IF r = FZero THEN <<1, -Prec>> ELSE r

\* a zero range is replaced by 1 before the division
HandleZerosInScale(r) == IF r = FZero THEN FOne ELSE r

\* scaler.fit: scale_ = (1 - 0) / range, min_ = 0 - data_min * scale_
MinMaxFit(dados) ==
  LET lo == FMinOf(dados)
      hi == FMaxOf(dados)
      sc == FDiv(FSub(FOne, FZero), HandleZerosInScale(FSub(hi, lo)))
  IN [data_min |-> lo, data_max |-> hi, scale_ |-> sc,
      min_ |-> FSub(FZero, FMul(lo, sc))]

\* scaler.transform of one value: X * scale_ + min_
Transform(sc, v) == FAdd(FMul(v, sc.scale_), sc.min_)

\* Fault seeded for C8: the inverse forgets the offset min_.
InverseSemMin(sc, v) == FDiv(v, sc.scale_)

\* scaler.inverse_transform of one value: (X - min_) / scale_
InverseTransform(sc, v) == FDiv(FSub(v, sc.min_), sc.scale_)

TransformAll(sc, v) == [i \in 1..Len(v) |-> Transform(sc, v[i])]
InverseAll(sc, v) == [i \in 1..Len(v) |-> InverseTransform(sc, v[i])]

\* dados = df[['Preco_R$']].values
Dados(s) == [i \in 1..Len(s) |-> FromInt(s[i])]

\* ----- windows: for i in range(window, len(dados_scaled)) -----
\* (i counts from 0 in the source; positions count from 1 here)
\* Fault seeded for C1: each window is shifted by one and holds its own target.
RECURSIVE JanelasXDeslocada(_, _)
JanelasXDeslocada(ds, i) ==
  IF i >= Len(ds) THEN <<>>
  ELSE <<SubSeq(ds, i - window + 2, i + 1)>> \o JanelasXDeslocada(ds, i + 1)

RECURSIVE JanelasX(_, _)
JanelasX(ds, i) ==
  IF i >= Len(ds) THEN <<>>
  ELSE <<SubSeq(ds, i - window + 1, i)>> \o JanelasX(ds, i + 1)

RECURSIVE JanelasY(_, _)
JanelasY(ds, i) ==
  IF i >= Len(ds) THEN <<>>
  ELSE <<ds[i + 1]>> \o JanelasY(ds, i + 1)

\* Fault seeded for C2: the empty list of windows taken as a 2-D array.
ShapeX2D(x) == <<Len(x), window>>

\* np.array(X).shape: a list of no windows becomes a 1-D array of shape (0,)
ShapeX(x) == IF Len(x) = 0 THEN <<0>> ELSE <<Len(x), window>>

\* Fault seeded for C7: dados_scaled[-window-1:-1], the last training window.
JanelaAnterior(ds) == SubSeq(ds, Max2(1, Len(ds) - window), Len(ds) - 1)

\* dados_scaled[-window:]
UltimaJanela(ds) == SubSeq(ds, Max2(1, Len(ds) - window + 1), Len(ds))

\* ----- predictors -----
\* A trained model maps a window to one normalized value.  It is kept as the
\* weights of the oldest and the newest value of the window and a bias.
Predict(model, janela) ==
  FAdd(FAdd(FMul(model.first, janela[1]),
            FMul(model.last, janela[Len(janela)])),
       model.bias)

PredictAll(model, x) == [i \in 1..Len(x) |-> Predict(model, x[i])]

\* What ten epochs of Adam from an unseeded random start may end in.
NNParams ==
  { [first |-> FOne, last |-> FZero, bias |-> FZero],
    [first |-> FZero, last |-> FZero, bias |-> <<1, -1>>] }

RECURSIVE FSum(_)
FSum(v) == IF Len(v) = 0 THEN FZero ELSE FAdd(v[1], FSum(Tail(v)))

FMean(v) == FDiv(FSum(v), FromInt(Len(v)))

\* LinearRegression().fit: least squares on centred data, the coefficient of
\* minimum norm when the regressor has no variance; intercept from the means.
\* The regression is kept to one regressor, the newest value of the window:
\* a direct computation from (X, y) with no random choice in it.
LinearRegressionFit(x, t) ==
  LET u == [i \in 1..Len(x) |-> x[i][window]]
      um == FMean(u)
      tm == FMean(t)
      uc == [i \in 1..Len(u) |-> FSub(u[i], um)]
      sxx == FSum([i \in 1..Len(u) |-> FMul(uc[i], uc[i])])
      sxy == FSum([i \in 1..Len(u) |-> FMul(uc[i], FSub(t[i], tm))])
      coef == IF sxx = FZero THEN FZero ELSE FDiv(sxy, sxx)
  IN [first |-> FZero, last |-> coef, bias |-> FSub(tm, FMul(um, coef))]

\* Fault seeded for C9: the square of the mean error, where errors cancel.
QuadradoDoErroMedio(a, b) ==
  LET m == FMean([i \in 1..Len(a) |-> FSub(a[i], b[i])]) IN FMul(m, m)

\* sklearn.metrics.mean_squared_error
MeanSquaredError(a, b) ==
  FMean([i \in 1..Len(a) |-> LET d == FSub(a[i], b[i]) IN FMul(d, d)])

\* np.sqrt(mean_squared_error(y_original, y_pred_original))
Rmse(a, b) == FSqrt(MeanSquaredError(a, b))


\* ----- state -----
VARIABLES
  series,            \* df['Preco_R$'], the price series the data source supplies
  pc,                \* the statement of app.py / previsoes.py to run next
  erro,              \* the exception that ended the script, or SemErro
  scaler,            \* the MinMaxScaler's fitted parameters, or None
  dados_scaled,      \* previsoes.dados_scaled
  X, y,              \* the training windows and their targets
  model_lstm, model_mlp, model_lr,
  y_original,        \* inverse_transform(y), computed in the LSTM section
  y_pred_lstm_original, y_pred_mlp_original, y_pred_lr_original,
  rmse_lstm_reais, rmse_mlp_reais, rmse_lr_reais,
  tela,              \* what streamlit has been told to draw, in order
  entrada,           \* the input the last prediction call gave its model
  retorno,           \* the value each prediction function returned last
  log,               \* the fits, error computations and calls so far, in order
  execucao,          \* which process start this is
  anterior           \* what the previous process start computed (SpecRerun)

modulo == <<scaler, dados_scaled, X, y, model_lstm, model_mlp, model_lr,
            y_original, y_pred_lstm_original, y_pred_mlp_original,
            y_pred_lr_original, rmse_lstm_reais, rmse_mlp_reais, rmse_lr_reais>>

vars == <<series, pc, erro, modulo, tela, entrada, retorno, log, execucao, anterior>>

Funcoes == {"previsao_lstm", "previsao_mlp", "previsao_reg_linear"}

\* The series: n points that repeat a pattern of SeedLen prices.
SeriesDe(seed, n) == [i \in 1..n |-> seed[((i - 1) % Len(seed)) + 1]]

Vazio ==
  /\ pc = "dados"
  /\ erro = SemErro
  /\ scaler = None
  /\ dados_scaled = <<>>
  /\ X = <<>>
  /\ y = <<>>
  /\ model_lstm = None
  /\ model_mlp = None
  /\ model_lr = None
  /\ y_original = <<>>
  /\ y_pred_lstm_original = <<>>
  /\ y_pred_mlp_original = <<>>
  /\ y_pred_lr_original = <<>>
  /\ rmse_lstm_reais = None
  /\ rmse_mlp_reais = None
  /\ rmse_lr_reais = None
  /\ tela = <<>>
  /\ entrada = None
  /\ retorno = [f \in Funcoes |-> None]
  /\ log = <<>>

Init ==
  /\ \E n \in 0..(window + MaxExtra) : \E seed \in [1..SeedLen -> Prices] :
       series = SeriesDe(seed, n)
  /\ Vazio
  /\ execucao = 1
  /\ anterior = None

\* Fault seeded for C6: the linear regression section placed before the MLP's.
SeguinteLrAntes(p) ==
  CASE p = "dados" -> "janelas"
    [] p = "janelas" -> "reshape"
    [] p = "reshape" -> "fit_lstm"
    [] p = "fit_lstm" -> "rmse_lstm"
    [] p = "rmse_lstm" -> "fit_lr"
    [] p = "fit_lr" -> "rmse_lr"
    [] p = "rmse_lr" -> "fit_mlp"
    [] p = "fit_mlp" -> "rmse_mlp"
    [] p = "rmse_mlp" -> "pagina"
    [] p = "pagina" -> "abas"
    [] p = "abas" -> "aba4_lstm"
    [] p = "aba4_lstm" -> "aba4_mlp"
    [] p = "aba4_mlp" -> "aba4_lr"
    [] p = "aba4_lr" -> "aba5"
    [] p = "aba5" -> "fim"
    [] OTHER -> "fim"

\* The order of the module-level statements of previsoes.py, then of app.py.
Seguinte(p) ==
  CASE p = "dados" -> "janelas"
    [] p = "janelas" -> "reshape"
    [] p = "reshape" -> "fit_lstm"
    [] p = "fit_lstm" -> "rmse_lstm"
    [] p = "rmse_lstm" -> "fit_mlp"
    [] p = "fit_mlp" -> "rmse_mlp"
    [] p = "rmse_mlp" -> "fit_lr"
    [] p = "fit_lr" -> "rmse_lr"
    [] p = "rmse_lr" -> "pagina"
    [] p = "pagina" -> "abas"
    [] p = "abas" -> "aba4_lstm"
    [] p = "aba4_lstm" -> "aba4_mlp"
    [] p = "aba4_mlp" -> "aba4_lr"
    [] p = "aba4_lr" -> "aba5"
    [] p = "aba5" -> "fim"
    [] OTHER -> "fim"

\* Fault seeded for C4: the exception is caught and the page drawn all the same.
FalhaCapturada(e) ==
  /\ pc' = "pagina"
  /\ erro' = e

\* An uncaught exception ends the script: nothing after it runs.
Falha(e) ==
  /\ pc' = "falhou"
  /\ erro' = e

\* previsoes.py 10-12: the scaler is fitted on the whole series and applied.
\* check_array refuses an array of no samples.
PrepararDados ==
  /\ pc = "dados"
  /\ IF Len(series) = 0
     THEN /\ Falha("ValueError")
          /\ UNCHANGED <<scaler, dados_scaled, log>>
     ELSE /\ scaler' = MinMaxFit(Dados(series))
          /\ dados_scaled' = TransformAll(scaler', Dados(series))
          /\ log' = Append(log, "scaler")
          /\ pc' = Seguinte(pc)
          /\ UNCHANGED erro
  /\ UNCHANGED <<series, X, y, model_lstm, model_mlp, model_lr, y_original,
                 y_pred_lstm_original, y_pred_mlp_original, y_pred_lr_original,
                 rmse_lstm_reais, rmse_mlp_reais, rmse_lr_reais,
                 tela, entrada, retorno, execucao, anterior>>

\* previsoes.py 14-19
Janelas ==
  /\ pc = "janelas"
  /\ X' = JanelasX(dados_scaled, window)
  /\ y' = JanelasY(dados_scaled, window)
  /\ log' = Append(log, "janelas")
  /\ pc' = Seguinte(pc)
  /\ UNCHANGED <<series, erro, scaler, dados_scaled, model_lstm, model_mlp,
                 model_lr, y_original, y_pred_lstm_original,
                 y_pred_mlp_original, y_pred_lr_original, rmse_lstm_reais,
                 rmse_mlp_reais, rmse_lr_reais, tela, entrada, retorno,
                 execucao, anterior>>

\* previsoes.py 20: X.shape[1] of a 1-D array raises IndexError
Reshape ==
  /\ pc = "reshape"
  /\ IF Len(ShapeX(X)) < 2
     THEN Falha("IndexError")
     ELSE pc' = Seguinte(pc) /\ UNCHANGED erro
  /\ UNCHANGED <<series, modulo, tela, entrada, retorno, log, execucao, anterior>>

\* previsoes.py 23-28: the fit ends in some weights, or the library raises
\* (the code catches nothing, so an exception of the fit ends the import).
FitLstm ==
  /\ pc = "fit_lstm"
  /\ \/ /\ \E m \in NNParams : model_lstm' = m
        /\ log' = Append(log, "fit_lstm")
        /\ pc' = Seguinte(pc)
        /\ UNCHANGED erro
     \/ /\ Falha("FitError")
        /\ UNCHANGED <<model_lstm, log>>
  /\ UNCHANGED <<series, scaler, dados_scaled, X, y, model_mlp, model_lr,
                 y_original, y_pred_lstm_original, y_pred_mlp_original,
                 y_pred_lr_original, rmse_lstm_reais, rmse_mlp_reais,
                 rmse_lr_reais, tela, entrada, retorno, execucao, anterior>>

\* previsoes.py 31-35
RmseLstm ==
  /\ pc = "rmse_lstm"
  /\ y_pred_lstm_original' = InverseAll(scaler, PredictAll(model_lstm, X))
  /\ y_original' = InverseAll(scaler, y)
  /\ rmse_lstm_reais' = Rmse(y_original', y_pred_lstm_original')
  /\ log' = Append(log, "rmse_lstm")
  /\ pc' = Seguinte(pc)
  /\ UNCHANGED <<series, erro, scaler, dados_scaled, X, y, model_lstm,
                 model_mlp, model_lr, y_pred_mlp_original, y_pred_lr_original,
                 rmse_mlp_reais, rmse_lr_reais, tela, entrada, retorno,
                 execucao, anterior>>

\* previsoes.py 43-49
FitMlp ==
  /\ pc = "fit_mlp"
  /\ \/ /\ \E m \in NNParams : model_mlp' = m
        /\ log' = Append(log, "fit_mlp")
        /\ pc' = Seguinte(pc)
        /\ UNCHANGED erro
     \/ /\ Falha("FitError")
        /\ UNCHANGED <<model_mlp, log>>
  /\ UNCHANGED <<series, scaler, dados_scaled, X, y, model_lstm, model_lr,
                 y_original, y_pred_lstm_original, y_pred_mlp_original,
                 y_pred_lr_original, rmse_lstm_reais, rmse_mlp_reais,
                 rmse_lr_reais, tela, entrada, retorno, execucao, anterior>>

\* previsoes.py 51-54
RmseMlp ==
  /\ pc = "rmse_mlp"
  /\ y_pred_mlp_original' = InverseAll(scaler, PredictAll(model_mlp, X))
  /\ rmse_mlp_reais' = Rmse(y_original, y_pred_mlp_original')
  /\ log' = Append(log, "rmse_mlp")
  /\ pc' = Seguinte(pc)
  /\ UNCHANGED <<series, erro, scaler, dados_scaled, X, y, model_lstm,
                 model_mlp, model_lr, y_original, y_pred_lstm_original,
                 y_pred_lr_original, rmse_lstm_reais, rmse_lr_reais, tela,
                 entrada, retorno, execucao, anterior>>

\* Fault seeded for C10: the MLP's weights taken for the regression's.
ModeloLrTrocado == model_mlp

\* What model_lr.fit(X, y) leaves in model_lr.
ModeloLr == LinearRegressionFit(X, y)

\* previsoes.py 62-63
FitLr ==
  /\ pc = "fit_lr"
  /\ \/ /\ model_lr' = ModeloLr
        /\ log' = Append(log, "fit_lr")
        /\ pc' = Seguinte(pc)
        /\ UNCHANGED erro
     \/ /\ Falha("FitError")
        /\ UNCHANGED <<model_lr, log>>
  /\ UNCHANGED <<series, scaler, dados_scaled, X, y, model_lstm, model_mlp,
                 y_original, y_pred_lstm_original, y_pred_mlp_original,
                 y_pred_lr_original, rmse_lstm_reais, rmse_mlp_reais,
                 rmse_lr_reais, tela, entrada, retorno, execucao, anterior>>

\* previsoes.py 65-68; the import of previsoes ends here
RmseLr ==
  /\ pc = "rmse_lr"
  /\ y_pred_lr_original' = InverseAll(scaler, PredictAll(model_lr, X))
  /\ rmse_lr_reais' = Rmse(y_original, y_pred_lr_original')
  /\ log' = Append(log, "rmse_lr")
  /\ pc' = Seguinte(pc)
  /\ UNCHANGED <<series, erro, scaler, dados_scaled, X, y, model_lstm,
                 model_mlp, model_lr, y_original, y_pred_lstm_original,
                 y_pred_mlp_original, rmse_lstm_reais, rmse_mlp_reais, tela,
                 entrada, retorno, execucao, anterior>>


\* ----- the prediction functions (previsoes.py 37-40, 56-59, 70-73) -----
ModeloDe(f) ==
  CASE f = "previsao_lstm" -> model_lstm
    [] f = "previsao_mlp" -> model_mlp
    [] f = "previsao_reg_linear" -> model_lr

\* entrada = dados_scaled[-window:].reshape((1, window))
Entrada == UltimaJanela(dados_scaled)

\* scaler.inverse_transform(model.predict(entrada))[0][0]
Previsao(f, e) == InverseTransform(scaler, Predict(ModeloDe(f), e))

\* Fault seeded for C5: the call fits the scaler again, on the window it reads.
ChamarReajusta(f) ==
  /\ entrada' = Entrada
  /\ scaler' = MinMaxFit(entrada')
  /\ retorno' = [retorno EXCEPT ![f] = Previsao(f, entrada')]
  /\ log' = Append(log, f)
  /\ UNCHANGED <<dados_scaled, X, y, model_lstm, model_mlp, model_lr,
                 y_original, y_pred_lstm_original, y_pred_mlp_original,
                 y_pred_lr_original, rmse_lstm_reais, rmse_mlp_reais,
                 rmse_lr_reais>>

\* One call of f: it reads the module's state and writes none of it.
Chamar(f) ==
  /\ entrada' = Entrada
  /\ retorno' = [retorno EXCEPT ![f] = Previsao(f, entrada')]
  /\ log' = Append(log, f)
  /\ UNCHANGED modulo

\* ----- app.py, after the import of previsoes -----
Item(nome, valor) == [item |-> nome, valor |-> valor]

\* app.py 14-30: page configuration, title, tabs
Pagina ==
  /\ pc = "pagina"
  /\ tela' = Append(tela, Item("pagina", None))
  /\ pc' = Seguinte(pc)
  /\ UNCHANGED <<series, erro, modulo, entrada, retorno, log, execucao, anterior>>

\* app.py 32-93: the three tabs that show the sales data
Abas ==
  /\ pc = "abas"
  /\ tela' = tela \o <<Item("aba1", None), Item("aba2", None), Item("aba3", None)>>
  /\ pc' = Seguinte(pc)
  /\ UNCHANGED <<series, erro, modulo, entrada, retorno, log, execucao, anterior>>

\* app.py 105-113
Aba4Lstm ==
  /\ pc = "aba4_lstm"
  /\ Chamar("previsao_lstm")
  /\ tela' = tela \o <<Item("previsao_lstm", retorno'["previsao_lstm"]),
                       Item("rmse_lstm_reais", rmse_lstm_reais)>>
  /\ pc' = Seguinte(pc)
  /\ UNCHANGED <<series, erro, execucao, anterior>>

\* app.py 115-123
Aba4Mlp ==
  /\ pc = "aba4_mlp"
  /\ Chamar("previsao_mlp")
  /\ tela' = tela \o <<Item("previsao_mlp", retorno'["previsao_mlp"]),
                       Item("rmse_mlp_reais", rmse_mlp_reais)>>
  /\ pc' = Seguinte(pc)
  /\ UNCHANGED <<series, erro, execucao, anterior>>

\* app.py 125-133
Aba4Lr ==
  /\ pc = "aba4_lr"
  /\ Chamar("previsao_reg_linear")
  /\ tela' = tela \o <<Item("previsao_reg_linear", retorno'["previsao_reg_linear"]),
                       Item("rmse_lr_reais", rmse_lr_reais)>>
  /\ pc' = Seguinte(pc)
  /\ UNCHANGED <<series, erro, execucao, anterior>>

\* app.py 142-184: the bar chart of the three errors, the footer
Aba5 ==
  /\ pc = "aba5"
  /\ tela' = Append(tela, Item("erros", <<rmse_lstm_reais, rmse_mlp_reais, rmse_lr_reais>>))
  /\ pc' = Seguinte(pc)
  /\ UNCHANGED <<series, erro, modulo, entrada, retorno, log, execucao, anterior>>

\* A later call of a prediction function by the importing script.
NumChamadas == Cardinality({i \in 1..Len(log) : log[i] \in Funcoes})

ChamadaLivre ==
  /\ pc = "fim"
  /\ NumChamadas < 3 + MaxCalls
  /\ \E f \in Funcoes : Chamar(f)
  /\ UNCHANGED <<series, pc, erro, tela, execucao, anterior>>

\* A new process on the same data: everything is computed again from the series.
Restart ==
  /\ pc = "fim"
  /\ execucao < MaxRuns
  /\ anterior' = [X |-> X, y |-> y, model_lstm |-> model_lstm,
                  model_lr |-> model_lr,
                  rmse_lr_reais |-> rmse_lr_reais,
                  previsao_reg_linear |-> retorno["previsao_reg_linear"]]
  /\ execucao' = execucao + 1
  /\ pc' = "dados"
  /\ erro' = SemErro
  /\ scaler' = None
  /\ dados_scaled' = <<>>
  /\ X' = <<>>
  /\ y' = <<>>
  /\ model_lstm' = None
  /\ model_mlp' = None
  /\ model_lr' = None
  /\ y_original' = <<>>
  /\ y_pred_lstm_original' = <<>>
  /\ y_pred_mlp_original' = <<>>
  /\ y_pred_lr_original' = <<>>
  /\ rmse_lstm_reais' = None
  /\ rmse_mlp_reais' = None
  /\ rmse_lr_reais' = None
  /\ tela' = <<>>
  /\ entrada' = None
  /\ retorno' = [f \in Funcoes |-> None]
  /\ log' = <<>>
  /\ UNCHANGED series

Startup ==
  \/ PrepararDados \/ Janelas \/ Reshape
  \/ FitLstm \/ RmseLstm \/ FitMlp \/ RmseMlp \/ FitLr \/ RmseLr

Render == Pagina \/ Abas \/ Aba4Lstm \/ Aba4Mlp \/ Aba4Lr \/ Aba5

Next == Startup \/ Render \/ ChamadaLivre

Spec == Init /\ [][Next]_vars

NextRerun == Startup \/ Render \/ Restart

SpecRerun == Init /\ [][NextRerun]_vars


\* ----- shared vocabulary of the properties -----
Degenerada == Len(series) > 0 /\ \A i \in 1..Len(series) : series[i] = series[1]
NoLog(e) == \E i \in 1..Len(log) : log[i] = e
Precos == {series[i] : i \in 1..Len(series)}
\* the first position of each price, and of the price at position j
Primeiros == {i \in 1..Len(series) : \A j \in 1..(i - 1) : series[j] # series[i]}
Primeiro(j) == CHOOSE i \in Primeiros : series[i] = series[j]
MenorPreco == CHOOSE m \in Precos : \A q \in Precos : m <= q
MaiorPreco == CHOOSE m \in Precos : \A q \in Precos : m >= q
ModelosProntos == model_lstm # None /\ model_mlp # None /\ model_lr # None
RmseProntos ==
  rmse_lstm_reais # None /\ rmse_mlp_reais # None /\ rmse_lr_reais # None
NadaMostrado ==
  /\ tela = <<>>
  /\ \A f \in Funcoes : retorno[f] = None /\ ~NoLog(f)

\* C1: for a series of more than window points the loop yields exactly
\* len - window (window, target) pairs, in order: pair k holds the window
\* normalized values at positions k .. k+window-1 and the one after them.
C1_Janelas ==
  (NoLog("janelas") /\ Len(series) > window) =>
    /\ Len(dados_scaled) = Len(series)
    /\ \A j \in Primeiros : dados_scaled[j] = Transform(scaler, FromInt(series[j]))
    /\ \A j \in 1..Len(series) : dados_scaled[j] = dados_scaled[Primeiro(j)]
    /\ Len(X) = Len(series) - window
    /\ Len(y) = Len(series) - window
    /\ \A k \in 1..Len(X) :
         /\ Len(X[k]) = window
         /\ \A j \in 1..window : X[k][j] = dados_scaled[k - 1 + j]
         /\ y[k] = dados_scaled[k + window]

C1_Testemunha ==
  /\ NoLog("janelas")
  /\ Len(series) = window + 2
  /\ Len(X) = 2
  /\ X[1] # X[2]
  /\ y[1] # y[2]

\* C2: a series of at most window points ends startup with an exception
\* during data preparation: no model is created or fitted.
C2_SerieCurta ==
  Len(series) <= window =>
    /\ pc \in {"dados", "janelas", "reshape", "falhou"}
    /\ erro \in {SemErro, "ValueError", "IndexError"}
    /\ X = <<>>
    /\ model_lstm = None /\ model_mlp = None /\ model_lr = None
    /\ ~NoLog("fit_lstm") /\ ~NoLog("fit_mlp") /\ ~NoLog("fit_lr")
    /\ NadaMostrado
    /\ (pc = "falhou" <=> erro # SemErro)

C2_Testemunha ==
  /\ Len(series) = window
  /\ pc = "falhou"
  /\ erro = "IndexError"
  /\ Len(dados_scaled) = window

C4_FalhaNadaMostra ==
  /\ (pc = "falhou" <=> erro # SemErro)
  /\ (erro # SemErro => NadaMostrado)
  /\ (~NadaMostrado => erro = SemErro /\ ModelosProntos /\ RmseProntos)
  /\ \A i, j \in 1..Len(log) : (i < j /\ log[i] = log[j]) => log[i] \in Funcoes

C4_Testemunha ==
  /\ pc = "falhou"
  /\ erro = "FitError"
  /\ rmse_mlp_reais # None
  /\ model_lr = None


\* C5: a call of a prediction function changes nothing of the scaler, the
\* normalized series, the windows, the models or the errors, and returns what
\* the same function returned before.
C5_ChamadasSoLeem ==
  [][(Len(log') = Len(log) + 1 /\ log'[Len(log')] \in Funcoes) =>
       /\ modulo' = modulo
       /\ \A f \in Funcoes : retorno[f] # None => retorno'[f] = retorno[f]]_vars

C5_Testemunha ==
  /\ pc = "fim"
  /\ Len(log) >= 2
  /\ log[Len(log)] = "previsao_lstm"
  /\ log[Len(log) - 1] = "previsao_reg_linear"
  /\ Cardinality({i \in 1..Len(log) : log[i] = "previsao_lstm"}) >= 2

\* the startup events in the order of previsoes.py
Ordem ==
  <<"scaler", "janelas", "fit_lstm", "rmse_lstm", "fit_mlp", "rmse_mlp",
    "fit_lr", "rmse_lr">>

\* C6: startup runs scaler, windows, LSTM fit and error, MLP fit and error,
\* regression fit and error, each once and in this order; calls and drawing
\* come only after all of it, and no fit comes after them.
C6_OrdemDaPartida ==
  /\ \A i \in 1..Len(log) :
       IF i <= Len(Ordem) THEN log[i] = Ordem[i] ELSE log[i] \in Funcoes
  /\ (~NadaMostrado => Len(log) >= Len(Ordem) /\ ModelosProntos /\ RmseProntos)
  /\ (model_lstm # None <=> NoLog("fit_lstm"))
  /\ (rmse_lstm_reais # None <=> NoLog("rmse_lstm"))
  /\ (model_mlp # None <=> NoLog("fit_mlp"))
  /\ (rmse_mlp_reais # None <=> NoLog("rmse_mlp"))
  /\ (model_lr # None <=> NoLog("fit_lr"))
  /\ (rmse_lr_reais # None <=> NoLog("rmse_lr"))

C6_Testemunha ==
  /\ pc = "fim"
  /\ Len(log) = Len(Ordem) + 3 + MaxCalls
  /\ Len(tela) > 0

\* C7: a prediction call gives its model the last window values of the
\* normalized series, in order (the window that starts after the start of
\* every training window), and returns the model's output put through the
\* inverse of the scaler fitted on the whole series.
C7_EntradaEUltimaJanela ==
  entrada # None =>
    LET n == Len(dados_scaled) IN
    /\ Len(entrada) = window
    /\ \A j \in 1..window : entrada[j] = dados_scaled[n - window + j]
    /\ Len(X) = n - window
    /\ scaler.data_min = FromInt(MenorPreco)
    /\ scaler.data_max = FromInt(MaiorPreco)
    /\ \A f \in Funcoes :
         retorno[f] # None =>
           retorno[f] = InverseTransform(scaler, Predict(ModeloDe(f), entrada))

C7_Testemunha ==
  /\ pc = "fim"
  /\ \A f \in Funcoes : retorno[f] # None
  /\ \A k \in 1..Len(X) : X[k] # entrada
  /\ Len(X) = 2

\* C8 (as stated): for a non-degenerate series every price p satisfies
\* inverse(normalize(p)) = p exactly, every normalized price lies in [0, 1],
\* the minimum is mapped to 0 and the maximum to 1.
C8_IdaEVoltaExata ==
  (scaler # None /\ ~Degenerada) =>
    /\ scaler.data_min = FromInt(MenorPreco)
    /\ scaler.data_max = FromInt(MaiorPreco)
    /\ \A i \in 1..Len(series) : dados_scaled[i] = dados_scaled[Primeiro(i)]
    /\ \A i \in Primeiros :
         /\ dados_scaled[i] = Transform(scaler, FromInt(series[i]))
         /\ InverseTransform(scaler, dados_scaled[i]) = FromInt(series[i])
         /\ FLeq(FZero, dados_scaled[i])
         /\ FLeq(dados_scaled[i], FOne)
         /\ (series[i] = MenorPreco => dados_scaled[i] = FZero)
         /\ (series[i] = MaiorPreco => dados_scaled[i] = FOne)

\* eight units of roundoff (2^-Prec each), relative to v
Tol(v) == FMul(<<1, 3 - Prec>>, v)
\* the same, relative to max / (max - min)
TolUm == Tol(FDiv(scaler.data_max, FSub(scaler.data_max, scaler.data_min)))

\* C8 (amended): for a non-degenerate series inverse(normalize(p)) is p to
\* within eight units of roundoff; the minimum is mapped to 0 exactly, no
\* price below 0, every price but the maximum into [0, 1], and the maximum to
\* 1 to within eight units of roundoff of max / (max - min): it may exceed 1.
C8_IdaEVoltaTolerancia ==
  (scaler # None /\ ~Degenerada) =>
    /\ scaler.data_min = FromInt(MenorPreco)
    /\ scaler.data_max = FromInt(MaiorPreco)
    /\ \A i \in 1..Len(series) : dados_scaled[i] = dados_scaled[Primeiro(i)]
    /\ \A i \in Primeiros :
         /\ dados_scaled[i] = Transform(scaler, FromInt(series[i]))
         /\ FLeq(FAbs(FSub(InverseTransform(scaler, dados_scaled[i]),
                          FromInt(series[i]))),
                 Tol(FromInt(series[i])))
         /\ FLeq(FZero, dados_scaled[i])
         /\ (series[i] = MenorPreco => dados_scaled[i] = FZero)
         /\ (series[i] = MaiorPreco =>
               FLeq(FAbs(FSub(dados_scaled[i], FOne)), TolUm))
         /\ (series[i] # MaiorPreco => FLeq(dados_scaled[i], FOne))

C8_Testemunha ==
  /\ scaler # None
  /\ ~Degenerada
  /\ \E i \in 1..Len(series) :
       InverseTransform(scaler, dados_scaled[i]) # FromInt(series[i])
  /\ \E i \in 1..Len(series) : FLess(FOne, dados_scaled[i])

\* C9: each stored RMSE is computed over all training windows, from the
\* predictions and the targets put back in price units; it is not negative,
\* and it is zero only if every prediction equals its target.
RmseCerto(rmse, model, pred) ==
  rmse # None =>
    /\ Len(pred) = Len(X)
    /\ Len(y_original) = Len(X)
    /\ Len(X) = Len(series) - window
    /\ \A i \in 1..Len(X) :
         pred[i] = InverseTransform(scaler, Predict(model, X[i]))
    /\ FLeq(FZero, rmse)
    /\ (rmse = FZero => \A i \in 1..Len(X) : pred[i] = y_original[i])

C9_RmseNaoNegativo ==
  /\ \A i \in 1..Len(y_original) :
       y_original[i] = InverseTransform(scaler, y[i])
  /\ RmseCerto(rmse_lstm_reais, model_lstm, y_pred_lstm_original)
  /\ RmseCerto(rmse_mlp_reais, model_mlp, y_pred_mlp_original)
  /\ RmseCerto(rmse_lr_reais, model_lr, y_pred_lr_original)

C9_Testemunha ==
  /\ RmseProntos
  /\ ~Degenerada
  /\ rmse_lstm_reais = FZero
  /\ FLess(FZero, rmse_mlp_reais)

====
